---- MODULE Spec2Model ----
(***************************************************************************)
(* Blog SEO Optimizer (src/app.py): the POST /api/optimize handler and the *)
(* rewriter helpers it calls.                                              *)
(*                                                                         *)
(* Text is modelled character for character: a Python str is a TLA+        *)
(* string, len is Len, s[a:b] is SubSeq and + is \o.  The Turkish letters  *)
(* of the fixed templates are written with the ASCII letter of the same    *)
(* shape (one code point each, so every length is the source's length).    *)
(* A JSON value is a record [t, py, n]: its Python type, its str()         *)
(* rendering (what an f-string inserts) and, for an int, its value.        *)
(***************************************************************************)
EXTENDS Integers, Sequences, FiniteSets, TLC

VARIABLES request, response, previous, local, call

vars == <<request, response, previous, local, call>>

(***************************************************************************)
(* Python str primitives                                                   *)
(***************************************************************************)
MinOf(S) == CHOOSE x \in S : \A y \in S : x <= y

MaxOf(S) == CHOOSE x \in S : \A y \in S : x >= y

\* s[i-1:i]: the character at index i, empty outside the string
At(s, i) == IF i >= 1 /\ i <= Len(s) THEN SubSeq(s, i, i) ELSE ""

Take(s, k) == SubSeq(s, 1, IF k < Len(s) THEN k ELSE Len(s))

Drop(s, k) == SubSeq(s, k + 1, Len(s))

StartsAt(s, i, pat) ==
    /\ i >= 1
    /\ i + Len(pat) - 1 <= Len(s)
    /\ SubSeq(s, i, i + Len(pat) - 1) = pat

\* str.find(pat, from - 1) + 1: the first index >= from at which pat
\* occurs, 0 when there is none.  The window w doubles on every miss.
RECURSIVE FindW(_, _, _, _)
FindW(s, pat, from, w) ==
    LET last == Len(s) - Len(pat) + 1
        hi   == IF from + w - 1 < last THEN from + w - 1 ELSE last
        hits == {i \in from..hi : SubSeq(s, i, i + Len(pat) - 1) = pat}
    IN  IF from > last THEN 0
        ELSE IF hits # {} THEN MinOf(hits)
        ELSE FindW(s, pat, hi + 1, 2 * w)

Find(s, pat, from) == FindW(s, pat, from, 16)

\* pat in s
Contains(s, pat) == Find(s, pat, 1) # 0

UpperToLower ==
    [c \in {"A","B","C","D","E","F","G","H","I","J","K","L","M",
            "N","O","P","Q","R","S","T","U","V","W","X","Y","Z"} |->
       CASE c = "A" -> "a" [] c = "B" -> "b" [] c = "C" -> "c" [] c = "D" -> "d"
         [] c = "E" -> "e" [] c = "F" -> "f" [] c = "G" -> "g" [] c = "H" -> "h"
         [] c = "I" -> "i" [] c = "J" -> "j" [] c = "K" -> "k" [] c = "L" -> "l"
         [] c = "M" -> "m" [] c = "N" -> "n" [] c = "O" -> "o" [] c = "P" -> "p"
         [] c = "Q" -> "q" [] c = "R" -> "r" [] c = "S" -> "s" [] c = "T" -> "t"
         [] c = "U" -> "u" [] c = "V" -> "v" [] c = "W" -> "w" [] c = "X" -> "x"
         [] c = "Y" -> "y" [] c = "Z" -> "z"]

\* str.lower(), by halves so that the recursion stays shallow
RECURSIVE Lower(_)
Lower(s) ==
    IF Len(s) = 0 THEN ""
    ELSE IF Len(s) = 1
         THEN (IF s \in DOMAIN UpperToLower THEN UpperToLower[s] ELSE s)
    ELSE LET h == Len(s) \div 2
         IN  Lower(SubSeq(s, 1, h)) \o Lower(SubSeq(s, h + 1, Len(s)))

\* str.replace(old, new, 1)
Replace1(s, old, new) ==
    LET i == Find(s, old, 1)
    IN  IF i = 0 THEN s
        ELSE SubSeq(s, 1, i - 1) \o new \o Drop(s, i + Len(old) - 1)

\* str.replace(old, new): every occurrence, left to right, non-overlapping
RECURSIVE ReplaceFrom(_, _, _, _)
ReplaceFrom(s, old, new, from) ==
    LET i == Find(s, old, from)
    IN  IF i = 0 THEN SubSeq(s, from, Len(s))
        ELSE SubSeq(s, from, i - 1) \o new
             \o ReplaceFrom(s, old, new, i + Len(old))

ReplaceAll(s, old, new) == ReplaceFrom(s, old, new, 1)

\* len(re.findall(re.escape(pat), s)): non-overlapping occurrences
RECURSIVE CountFrom(_, _, _)
CountFrom(s, pat, from) ==
    LET i == Find(s, pat, from)
    IN  IF i = 0 THEN 0 ELSE 1 + CountFrom(s, pat, i + Len(pat))

Digit == [d \in 0..9 |->
    CASE d = 0 -> "0" [] d = 1 -> "1" [] d = 2 -> "2" [] d = 3 -> "3"
      [] d = 4 -> "4" [] d = 5 -> "5" [] d = 6 -> "6" [] d = 7 -> "7"
      [] d = 8 -> "8" [] d = 9 -> "9"]

\* str(k) of an int: the decimal digits, behind a "-" when k is negative
RECURSIVE IntToStr(_)
IntToStr(k) ==
    IF k < 0 THEN "-" \o IntToStr(0 - k)
    ELSE IF k < 10 THEN Digit[k]
    ELSE IntToStr(k \div 10) \o Digit[k % 10]

\* "x" * k
RECURSIVE Rep(_, _)
Rep(c, k) ==
    IF k <= 0 THEN ""
    ELSE IF k = 1 THEN c
    ELSE Rep(c, k \div 2) \o Rep(c, k - (k \div 2))

(***************************************************************************)
(* JSON values as request.get_json() hands them to the handler             *)
(***************************************************************************)
JStr(s) == [t |-> "str", py |-> s, n |-> 0]

JInt(k) == [t |-> "int", py |-> IntToStr(k), n |-> k]

JNull == [t |-> "null", py |-> "None", n |-> 0]

IsStr(v) == v.t = "str"

IsInt(v) == v.t = "int"

(***************************************************************************)
(* optimize_title                                                          *)
(***************************************************************************)
\* title.lower() or focus_keyword.lower() raises AttributeError
optimize_title_raises(title, focus_keyword) ==
    ~IsStr(focus_keyword) \/ ~IsStr(title)

\* optimize_title_try with the cut made at 60 characters instead of 57
optimize_title_try_cut60(title, focus_keyword) ==
    LET optimized_title ==
            IF ~Contains(Lower(title.py), Lower(focus_keyword.py))
            THEN focus_keyword.py \o " - " \o title.py
            ELSE title.py
    IN  IF Len(optimized_title) > 60
        THEN Take(optimized_title, 60) \o "..."
        ELSE optimized_title

optimize_title_try(title, focus_keyword) ==
    LET optimized_title ==
            IF ~Contains(Lower(title.py), Lower(focus_keyword.py))
            THEN focus_keyword.py \o " - " \o title.py
            ELSE title.py
    IN  IF Len(optimized_title) > 60
        THEN Take(optimized_title, 57) \o "..."
        ELSE optimized_title

optimize_title(title, focus_keyword) ==
    IF optimize_title_raises(title, focus_keyword)
    THEN Take(focus_keyword.py \o " - " \o title.py, 60)
    ELSE optimize_title_try(title, focus_keyword)

(***************************************************************************)
(* Regular-expression pieces shared by the helpers                         *)
(***************************************************************************)
\* The ASCII characters str.split() treats as separators: space, the
\* escapes \t \n \r \f, and the control characters 0B (VT) and 1C to 1F
\* (FS, GS, RS, US), which have no escape and stand in the strings as
\* themselves.
IsSpace(c) ==
    c \in {" ", "\n", "\t", "\r", "\f", "", "", "", "", ""}

\* len(s.split()): the number of maximal runs of non-whitespace
WordCount(s) ==
    Cardinality({i \in 1..Len(s) :
                    /\ ~IsSpace(At(s, i))
                    /\ (i = 1 \/ IsSpace(At(s, i - 1)))})

\* re.sub(r'<[^>]+>', '', s) from index from on: a match starts at a "<"
\* that is followed by at least one character other than ">" and then by
\* a ">"; matches are taken leftmost first and removed.
RECURSIVE StripFrom(_, _)
StripFrom(s, from) ==
    LET i == Find(s, "<", from)
        g == Find(s, ">", i + 2)
    IN  IF i = 0 \/ g = 0 THEN SubSeq(s, from, Len(s))
        ELSE IF At(s, i + 1) = ">"
             THEN SubSeq(s, from, i) \o StripFrom(s, i + 1)
        ELSE SubSeq(s, from, i - 1) \o StripFrom(s, g + 1)

StripTags(s) == StripFrom(s, 1)

NoMatch == [i |-> 0, g |-> 0, e |-> 0]

\* re.search(r'<p[^>]*>(.*?)</p>', s, re.IGNORECASE) from index from on,
\* L being s.lower(): i is the index of "<p", g of the ">" that ends the
\* opening tag, e of the "</p>".  "." does not match a line feed, so a
\* start whose first "</p>" lies on a later line fails and the search
\* moves on to the next start.
RECURSIVE PSearch(_, _)
PSearch(L, from) ==
    LET i  == Find(L, "<p", from)
        g  == Find(L, ">", i + 2)
        e  == Find(L, "</p>", g + 1)
        nl == Find(L, "\n", g + 1)
    IN  IF i = 0 \/ g = 0 \/ e = 0 THEN NoMatch
        ELSE IF nl # 0 /\ nl < e THEN PSearch(L, i + 1)
        ELSE [i |-> i, g |-> g, e |-> e]

\* re.findall(r'<p[^>]*>.*?</p>', s, re.IGNORECASE)[:k]
RECURSIVE PFindAll(_, _, _, _)
PFindAll(s, L, from, k) ==
    LET m == PSearch(L, from)
    IN  IF k = 0 \/ m.i = 0 THEN <<>>
        ELSE <<SubSeq(s, m.i, m.e + 3)>> \o PFindAll(s, L, m.e + 4, k - 1)

\* re.search(rf'<h2[^>]*>.*{re.escape(kw)}.*</h2>', s, re.IGNORECASE), L
\* and lkw being the lower-cased s and kw: an "<h2" whose opening tag
\* ends at g, the keyword at some k and a "</h2>" at some e behind it.
\* Neither ".*" crosses a line feed, so none lies between g and k nor
\* between the keyword and e; the keyword itself may hold line feeds.
H2WithKeyword(L, lkw) ==
    \E i \in 1..Len(L) :
        /\ StartsAt(L, i, "<h2")
        /\ LET g   == Find(L, ">", i + 3)
               nl  == Find(L, "\n", g + 1)
               eol == IF nl = 0 THEN Len(L) + 1 ELSE nl
           IN  /\ g # 0
               /\ \E k \in (g + 1)..eol :
                      /\ StartsAt(L, k, lkw)
                      /\ LET e   == Find(L, "</h2>", k + Len(lkw))
                             nl2 == Find(L, "\n", k + Len(lkw))
                         IN  e # 0 /\ (nl2 = 0 \/ nl2 > e)

(***************************************************************************)
(* generate_meta_description                                               *)
(***************************************************************************)
\* re.sub on a content that is not a str raises TypeError
generate_meta_description_raises(content, focus_keyword) == ~IsStr(content)

generate_meta_description_try(content, focus_keyword) ==
    LET clean_content  == StripTags(content.py)
        dot            == Find(clean_content, ".", 1)
        first_sentence == IF dot = 0 THEN clean_content
                          ELSE SubSeq(clean_content, 1, dot - 1)
        meta_desc      == first_sentence \o " " \o focus_keyword.py
            \o " konusunda kapsamli rehber ve uzman danismanlik hizmetleri."
    IN  IF Len(meta_desc) > 160 THEN Take(meta_desc, 157) \o "..."
        ELSE IF Len(meta_desc) < 150
             THEN meta_desc \o " Detayli bilgi icin tiklayin."
        ELSE meta_desc

generate_meta_description(content, focus_keyword) ==
    IF generate_meta_description_raises(content, focus_keyword)
    THEN focus_keyword.py
         \o " konusunda kapsamli rehber. 2025 guncel bilgiler ve uzman da"
         \o "nismanlik hizmetleri."
    ELSE generate_meta_description_try(content, focus_keyword)

\* the text before the length rule is applied (line 44)
UnpaddedMeta(content, focus_keyword) ==
    LET clean_content  == StripTags(content.py)
        dot            == Find(clean_content, ".", 1)
        first_sentence == IF dot = 0 THEN clean_content
                          ELSE SubSeq(clean_content, 1, dot - 1)
    IN  first_sentence \o " " \o focus_keyword.py
            \o " konusunda kapsamli rehber ve uzman danismanlik hizmetleri."

(***************************************************************************)
(* generate_tags: count is the value of random.randint(5, 10)              *)
(***************************************************************************)
TagDraws == 5..10

generate_tags(focus_keyword, count) ==
    LET kw == focus_keyword.py
        base_tags == << focus_keyword,
                        JStr(kw \o " rehberi"),
                        JStr(kw \o " nasil alinir"),
                        JStr(kw \o " 2025"),
                        JStr(kw \o " basvuru"),
                        JStr(kw \o " sartlari"),
                        JStr(kw \o " belgeleri"),
                        JStr(kw \o " sureci"),
                        JStr(kw \o " faydalari"),
                        JStr(kw \o " avantajlari") >>
    IN  SubSeq(base_tags, 1, count)

\* ', '.join(tags); it raises TypeError when an item is not a str
JoinRaises(tags) == \E i \in 1..Len(tags) : ~IsStr(tags[i])

RECURSIVE Join(_)
Join(tags) ==
    IF Len(tags) = 0 THEN ""
    ELSE IF Len(tags) = 1 THEN tags[1].py
    ELSE tags[1].py \o ", " \o Join(Tail(tags))

(***************************************************************************)
(* generate_image_fields                                                   *)
(***************************************************************************)
\* focus_keyword.lower().replace(' ', '-')
Slug(kw) == ReplaceAll(Lower(kw), " ", "-")

\* focus_keyword.lower() raises AttributeError in the try block, and the
\* except block calls it again
generate_image_fields_raises(focus_keyword) == ~IsStr(focus_keyword)

generate_image_fields_except_raises(focus_keyword) == ~IsStr(focus_keyword)

\* the six replace calls after ' ' -> '-' turn Turkish letters into the
\* ASCII letters this module already writes, so they change nothing here
generate_image_fields(focus_keyword) ==
    LET kw       == focus_keyword.py
        filename == Slug(kw)
    IN  [alt_text          |-> kw \o " konusunda detayli bilgi ve rehber",
         image_title       |-> filename \o "-rehberi-2025",
         image_caption     |-> kw \o " Rehberi - 2025 Guncel Bilgiler",
         image_description |-> kw
            \o " konusunda kapsamli rehber ve uzman danismanlik hizmetleri. "
            \o "Detayli bilgi ve adim adim surec aciklamasi."]

(***************************************************************************)
(* optimize_html_content, one operator per step of the try block; each     *)
(* takes the current value of the local variable optimized                 *)
(***************************************************************************)
\* lines 109-115: add the keyword to the first paragraph if it is absent
InjectKeyword(optimized, kw) ==
    LET L == Lower(optimized)
        m == PSearch(L, 1)
        p_content     == SubSeq(optimized, m.g + 1, m.e - 1)
        new_p_content == kw \o " konusunda " \o p_content
    IN  IF ~Contains(L, Lower(kw)) /\ m.i # 0
        THEN ReplaceAll(optimized, SubSeq(optimized, m.i, m.e + 3),
                        "<p>" \o new_p_content \o "</p>")
        ELSE optimized

h2_heading(kw) == "<h2>" \o kw \o " Nedir?</h2>"

\* lines 117-124: add an H2 with the keyword after the first "</p>"
InsertH2(optimized, kw) ==
    LET p == Find(optimized, "</p>", 1)
    IN  IF ~H2WithKeyword(Lower(optimized), Lower(kw)) /\ p # 0
        THEN SubSeq(optimized, 1, p + 3) \o "\n" \o h2_heading(kw) \o "\n"
             \o Drop(optimized, p + 3)
        ELSE optimized

h3_heading(kw) == "<h3>" \o kw \o " Avantajlari</h3>"

\* InsertH3 without the count of 1: an H3 after every "</h2>"
InsertH3_every(optimized, kw) ==
    ReplaceAll(optimized, "</h2>", "</h2>\n" \o h3_heading(kw) \o "\n")

\* lines 126-128: add the H3 after the first "</h2>"
InsertH3(optimized, kw) ==
    Replace1(optimized, "</h2>", "</h2>\n" \o h3_heading(kw) \o "\n")

toc(kw) ==
    "<div class=\"table-of-contents\">\n"
    \o "<h3>Icindekiler</h3>\n"
    \o "<ul>\n"
    \o "<li><a href=\"#nedir\">" \o kw \o " Nedir?</a></li>\n"
    \o "<li><a href=\"#avantajlar\">" \o kw \o " Avantajlari</a></li>\n"
    \o "<li><a href=\"#nasil\">" \o kw \o " Nasil Alinir?</a></li>\n"
    \o "<li><a href=\"#sartlar\">" \o kw \o " Sartlari</a></li>\n"
    \o "</ul>\n"
    \o "</div>"

\* lines 141-145: insert the table of contents after the first "</p>"
InsertTOC(optimized, kw) ==
    LET p == Find(optimized, "</p>", 1)
    IN  IF p # 0
        THEN SubSeq(optimized, 1, p + 3) \o "\n" \o toc(kw) \o "\n"
             \o Drop(optimized, p + 3)
        ELSE optimized

internal_links(kw) ==
    << "<a href=\"/" \o Slug(kw) \o "\" title=\"" \o kw
          \o "\">daha fazla bilgi</a>",
       "<a href=\"/" \o Slug(kw) \o "-rehberi\" title=\"" \o kw
          \o " rehberi\">detayli rehber</a>" >>

external_link(kw) ==
    "<a href=\"https://www.google.com/search?q=" \o kw
    \o "\" target=\"_blank\" rel=\"nofollow\">Google'da ara</a>"

\* InsertLink without the count of 1: the link in every paragraph
InsertLink_every(optimized, link) ==
    ReplaceAll(optimized, "</p>", " " \o link \o "</p>")

\* lines 154 and 158: optimized.replace('</p>', f' {link}</p>', 1)
InsertLink(optimized, link) ==
    Replace1(optimized, "</p>", " " \o link \o "</p>")

\* lines 147-158: the two internal links in list order, then the external
InsertLinks(optimized, kw) ==
    InsertLink(InsertLink(InsertLink(optimized, internal_links(kw)[1]),
                          internal_links(kw)[2]),
               external_link(kw))

transition_words ==
    << "Ayrica", "Bununla birlikte", "Ozellikle", "Onemli olarak",
       "Sonuc olarak", "Bu nedenle", "Bunun sonucunda", "Kisacasi" >>

\* line 170-171 for the paragraph p_tag and the word w
AddTransition(optimized, p_tag, w) ==
    Replace1(optimized, p_tag, ReplaceAll(p_tag, "<p>", "<p>" \o w \o ", "))

\* lines 166-171: p_tags[1:3] are the 2nd and 3rd matches, taken before
\* the loop changes the text
AddTransitions(optimized) ==
    LET p_tags == PFindAll(optimized, Lower(optimized), 1, 3)
        one    == IF Len(p_tags) >= 2
                  THEN AddTransition(optimized, p_tags[2], transition_words[1])
                  ELSE optimized
    IN  IF Len(p_tags) >= 3
        THEN AddTransition(one, p_tags[3], transition_words[2])
        ELSE one

additional_content(kw) ==
    "\n"
    \o "<h3>" \o kw \o " Sureci</h3>\n"
    \o "<p>" \o kw
    \o " basvuru sureci oldukca basit ve hizlidir. Ilk olarak gerekl"
    \o "i belgeleri hazirlamaniz gerekmektedir. Bu belgeler arasinda"
    \o " kimlik fotokopisi, adres belgesi ve diger gerekli evraklar "
    \o "bulunmaktadir.</p>\n"
    \o "\n"
    \o "<h3>" \o kw \o " Faydalari</h3>\n"
    \o "<p>" \o kw
    \o " almanin bircok faydasi bulunmaktadir. Bu belge sayesinde ce"
    \o "sitli avantajlardan yararlanabilirsiniz. Ozellikle is hayati"
    \o "nda ve resmi islemlerde buyuk kolaylik saglamaktadir.</p>\n"
    \o "\n"
    \o "<h3>Sonuc</h3>\n"
    \o "<p>" \o kw
    \o " konusunda bilgi sahibi olmak ve bu belgeyi almak icin yukar"
    \o "idaki adimlari takip etmeniz yeterlidir. Bu rehber sayesinde"
    \o " surec hakkinda detayli bilgi edinebilirsiniz.</p>\n"

\* lines 173-186: pad a text of fewer than 600 words
EnsureLength(optimized, kw) ==
    IF WordCount(StripTags(optimized)) < 600
    THEN optimized \o additional_content(kw)
    ELSE optimized

\* focus_keyword.lower() or optimized.lower() raises AttributeError
optimize_html_content_raises(html_code, focus_keyword) ==
    ~IsStr(focus_keyword) \/ ~IsStr(html_code)

optimize_html_content_try(html_code, focus_keyword) ==
    LET kw == focus_keyword.py
    IN  EnsureLength(
          AddTransitions(
            InsertLinks(
              InsertTOC(
                InsertH3(
                  InsertH2(
                    InjectKeyword(html_code.py, kw), kw), kw), kw), kw)), kw)

\* the third parameter, optimized_title, is never read
optimize_html_content(html_code, focus_keyword, optimized_title) ==
    IF optimize_html_content_raises(html_code, focus_keyword)
    THEN "<h1>" \o focus_keyword.py \o "</h1><p>" \o focus_keyword.py
         \o " konusunda detayli bilgi ve rehber.</p>" \o html_code.py
    ELSE optimize_html_content_try(html_code, focus_keyword)

(***************************************************************************)
(* calculate_seo_score                                                     *)
(***************************************************************************)
\* the first of the two quote characters at or after index from, 0 if none
NextQuote(s, from) ==
    LET d == Find(s, "\"", from)
        a == Find(s, "'", from)
    IN  IF d = 0 THEN a ELSE IF a = 0 THEN d ELSE IF d < a THEN d ELSE a

\* The end of the match of  open[^>]*attr["']value[^"']*["'][^>]*>  that
\* starts at index i of s (where open occurs), 0 when there is none; value
\* is one of values, and free is false when the pattern has no [^"']*
\* (the closing quote then follows value at once).  The greedy [^>]*
\* settles on the last attr it can reach without crossing a ">" from which
\* the rest of the pattern still matches.
AttrTagEnd(s, i, open, attr, values, free) ==
    LET g1    == Find(s, ">", i + Len(open))
        limit == IF g1 = 0 THEN Len(s) + 1 ELSE g1
        q1(j) == j + Len(attr)
        EndAt(j, v) ==
            LET q2 == IF free THEN NextQuote(s, q1(j) + 1 + Len(v))
                      ELSE IF At(s, q1(j) + 1 + Len(v)) \in {"\"", "'"}
                           THEN q1(j) + 1 + Len(v)
                      ELSE 0
            IN  IF /\ StartsAt(s, j, attr)
                   /\ At(s, q1(j)) \in {"\"", "'"}
                   /\ StartsAt(s, q1(j) + 1, v)
                   /\ q2 # 0
                THEN Find(s, ">", q2 + 1)
                ELSE 0
        ok == {j \in (i + Len(open))..(limit - 1) :
                  \E v \in values : EndAt(j, v) # 0}
        jm == MaxOf(ok)
    IN  IF ok = {} THEN 0
        ELSE EndAt(jm, CHOOSE v \in values : EndAt(jm, v) # 0)

\* len(re.findall(pattern, s)) for the pattern of AttrTagEnd
RECURSIVE CountAttrTags(_, _, _, _, _, _)
CountAttrTags(s, open, attr, values, free, from) ==
    LET i == Find(s, open, from)
        e == AttrTagEnd(s, i, open, attr, values, free)
    IN  IF i = 0 THEN 0
        ELSE IF e = 0 THEN CountAttrTags(s, open, attr, values, free, i + 1)
        ELSE 1 + CountAttrTags(s, open, attr, values, free, e + 1)

\* len(re.findall(open[^>]*>, L)), L lower-cased for re.IGNORECASE
RECURSIVE CountOpenTags(_, _, _)
CountOpenTags(L, open, from) ==
    LET i == Find(L, open, from)
        g == Find(L, ">", i + Len(open))
    IN  IF i = 0 \/ g = 0 THEN 0
        ELSE 1 + CountOpenTags(L, open, g + 1)

\* len(re.findall(re.escape(kw), html, re.IGNORECASE)); the empty pattern
\* matches once at every index and once at the end
KeywordCount(L, lkw) ==
    IF lkw = "" THEN Len(L) + 1 ELSE CountFrom(L, lkw, 1)

Least(a, b) == IF a < b THEN a ELSE b

\* html_code is always the str assembled by the handler.  score += ...
\* raises TypeError for a current_score that is not a number, and
\* re.escape for a focus_keyword that is not a str.
calculate_seo_score_raises(html_code, focus_keyword, current_score) ==
    ~IsInt(current_score) \/ ~IsStr(focus_keyword)

\* current_score + 25 in the except block raises TypeError again
calculate_seo_score_except_raises(current_score) == ~IsInt(current_score)

\* the points with the keyword bonus given from 30 occurrences on
SeoPoints_from30(html_code, kw) ==
    LET L == Lower(html_code)
    IN    (IF Contains(L, "<title>") THEN 10 ELSE 0)
        + (IF CountAttrTags(L, "<meta", "name=", {"description"}, FALSE, 1) > 0
           THEN 10 ELSE 0)
        + (IF CountOpenTags(L, "<h1", 1) > 0 THEN 5 ELSE 0)
        + Least(CountOpenTags(L, "<h2", 1) * 5, 15)
        + Least(CountOpenTags(L, "<h3", 1) * 2, 10)
        + (IF KeywordCount(L, Lower(kw)) >= 30 THEN 15 ELSE 0)
        + Least(CountAttrTags(html_code, "<a", "href=", {""}, TRUE, 1) * 2, 10)
        + Least(CountAttrTags(html_code, "<a", "href=",
                              {"http://", "https://"}, TRUE, 1) * 2, 5)
        + Least(CountAttrTags(html_code, "<img", "alt=", {""}, TRUE, 1) * 2, 10)
        + (IF WordCount(StripTags(html_code)) >= 600 THEN 10 ELSE 0)
        + (IF Contains(L, "table-of-contents") THEN 5 ELSE 0)
        + (IF Contains(L, "schema.org") THEN 5 ELSE 0)

\* the points added to current_score by the try block (lines 198-246)
SeoPoints(html_code, kw) ==
    LET L == Lower(html_code)
    IN    (IF Contains(L, "<title>") THEN 10 ELSE 0)
        + (IF CountAttrTags(L, "<meta", "name=", {"description"}, FALSE, 1) > 0
           THEN 10 ELSE 0)
        + (IF CountOpenTags(L, "<h1", 1) > 0 THEN 5 ELSE 0)
        + Least(CountOpenTags(L, "<h2", 1) * 5, 15)
        + Least(CountOpenTags(L, "<h3", 1) * 2, 10)
        + (IF KeywordCount(L, Lower(kw)) >= 3 THEN 15 ELSE 0)
        + Least(CountAttrTags(html_code, "<a", "href=", {""}, TRUE, 1) * 2, 10)
        + Least(CountAttrTags(html_code, "<a", "href=",
                              {"http://", "https://"}, TRUE, 1) * 2, 5)
        + Least(CountAttrTags(html_code, "<img", "alt=", {""}, TRUE, 1) * 2, 10)
        + (IF WordCount(StripTags(html_code)) >= 600 THEN 10 ELSE 0)
        + (IF Contains(L, "table-of-contents") THEN 5 ELSE 0)
        + (IF Contains(L, "schema.org") THEN 5 ELSE 0)

\* the try block without the final min(score, 100)
calculate_seo_score_try_unclamped(html_code, focus_keyword, current_score) ==
    current_score.n + SeoPoints(html_code, focus_keyword.py)

calculate_seo_score_try(html_code, focus_keyword, current_score) ==
    Least(current_score.n + SeoPoints(html_code, focus_keyword.py), 100)

calculate_seo_score(html_code, focus_keyword, current_score) ==
    IF calculate_seo_score_raises(html_code, focus_keyword, current_score)
    THEN Least(current_score.n + 25, 95)
    ELSE calculate_seo_score_try(html_code, focus_keyword, current_score)

(***************************************************************************)
(* optimize_content: the POST /api/optimize view                           *)
(***************************************************************************)
required_fields == <<"title", "html_code", "focus_keyword", "seo_score">>

\* The value of request.get_json(): kind is the JSON type ("invalid" when
\* get_json raises instead of returning), has the names for which
\* `field in data` is true, val the values stored under the names.
Body(kind, has, val) == [kind |-> kind, has |-> has, val |-> val]

Object(title, html_code, focus_keyword, seo_score) ==
    Body("object", {"title", "html_code", "focus_keyword", "seo_score"},
         [title |-> title, html_code |-> html_code,
          focus_keyword |-> focus_keyword, seo_score |-> seo_score])

NoVal == [title |-> JNull, html_code |-> JNull,
          focus_keyword |-> JNull, seo_score |-> JNull]

\* type(v).__name__ as Python's error messages print it
TypeName(v) == IF v.t = "null" THEN "NoneType" ELSE v.t

HelperNames ==
    <<"optimize_title", "generate_meta_description", "optimize_html_content",
      "generate_tags", "generate_image_fields", "calculate_seo_score">>

optimizations ==
    << "Title optimized with focus keyword at beginning",
       "Meta description generated (150-160 chars)",
       "H1 > H2 > H3 hierarchy implemented",
       "Table of Contents added",
       "Internal links (2+) and external links (1+) added",
       "600+ word content ensured",
       "Transition words added for readability",
       "Schema markup included",
       "Image alt text optimized",
       "Rank Math 90+ score achieved" >>

\* lines 302-338
Document(optimized_title, optimized_meta, tags, kw, optimized_content) ==
    "<!DOCTYPE html>\n"
    \o "<html lang=\"tr\">\n"
    \o "<head>\n"
    \o "    <meta charset=\"UTF-8\">\n"
    \o "    <meta name=\"viewport\" content=\"width=device-width, initi"
    \o "al-scale=1.0\">\n"
    \o "    <title>" \o optimized_title \o "</title>\n"
    \o "    <meta name=\"description\" content=\"" \o optimized_meta \o "\">\n"
    \o "    <meta name=\"keywords\" content=\"" \o tags \o "\">\n"
    \o "    <link rel=\"canonical\" href=\"https://example.com/"
    \o Slug(kw) \o "\">\n"
    \o "    \n"
    \o "    <!-- Schema.org structured data -->\n"
    \o "    <script type=\"application/ld+json\">\n"
    \o "    {\n"
    \o "        \"@context\": \"https://schema.org\",\n"
    \o "        \"@type\": \"Article\",\n"
    \o "        \"headline\": \"" \o optimized_title \o "\",\n"
    \o "        \"description\": \"" \o optimized_meta \o "\",\n"
    \o "        \"keywords\": \"" \o kw \o "\",\n"
    \o "        \"author\": {\n"
    \o "            \"@type\": \"Organization\",\n"
    \o "            \"name\": \"Blog SEO Optimizer\"\n"
    \o "        },\n"
    \o "        \"publisher\": {\n"
    \o "            \"@type\": \"Organization\",\n"
    \o "            \"name\": \"Blog SEO Optimizer\"\n"
    \o "        },\n"
    \o "        \"datePublished\": \"2025-01-01\",\n"
    \o "        \"dateModified\": \"2025-01-01\",\n"
    \o "        \"wordCount\": \"" \o IntToStr(WordCount(optimized_content))
    \o "\",\n"
    \o "        \"articleSection\": \"Blog\"\n"
    \o "    }\n"
    \o "    </script>\n"
    \o "</head>\n"
    \o "<body>\n"
    \o "    " \o optimized_content \o "\n"
    \o "</body>\n"
    \o "</html>"

NoData == <<>>

\* What the view returns, with two records of what happened on the way:
\* invoked lists the helpers called, in call order, and fallbacks holds
\* the helpers whose except block ran and returned.
Response(status, success, error, data, invoked, fallbacks) ==
    [status |-> status, success |-> success, error |-> error, data |-> data,
     invoked |-> invoked, fallbacks |-> fallbacks]

Failure(status, error, invoked, fallbacks) ==
    Response(status, FALSE, error, NoData, invoked, fallbacks)

\* lines 282-287: the first required field that is not in data
Missing(data) ==
    LET absent == {i \in 1..Len(required_fields) :
                      required_fields[i] \notin data.has}
    IN  IF absent = {} THEN "" ELSE required_fields[MinOf(absent)]

(***************************************************************************)
(* The service.  request is the body of the POST being served, local the   *)
(* local variables of the running view with its position pc, response the  *)
(* answer to the last request and previous the answer a client kept.       *)
(***************************************************************************)
\* round(random.uniform(1.2, 2.1), 1), in tenths
DensityDraws == 12..21

Filler == 600

Titles == {JStr("Guide"), JStr("My test guide"), JNull}

Htmls ==
    {JStr("<p>Hello world</p>"),
     JStr("Hello world"),
     JStr("<h1>T</h1><p>a</p><p>b</p><img src=\"a\" alt=\"b\">"
          \o "<a href='http://x'>l</a>"),
     JStr("<p>" \o Rep("w ", Filler) \o "</p>"),
     JNull}

Keywords == {JStr("Test"), JStr("Golden Visa"), JInt(123), JNull}

Scores == {JInt(0), JInt(28), JInt(29), JInt(50), JInt(100), JInt(150),
           JStr("50"), JNull}

\* bodies that hold the four fields: every html_code and seo_score with
\* the plain title and keyword, every title and keyword with the plain
\* html_code and seo_score, and the null fields with every seo_score
FullBodies ==
    {Object(JStr("Guide"), h, JStr("Test"), sc) : h \in Htmls, sc \in Scores}
    \cup {Object(t, JStr("<p>Hello world</p>"), k, JInt(50)) :
             t \in Titles, k \in Keywords}
    \cup {Object(JNull, JNull, JStr("Golden Visa"), sc) : sc \in Scores}

\* objects that lack some of the four fields
PartialBodies ==
    {Body("object", has,
          [f \in {"title", "html_code", "focus_keyword", "seo_score"} |->
              IF f \notin has THEN JNull
              ELSE IF f = "seo_score" THEN JInt(50) ELSE JStr("Test")]) :
        has \in (SUBSET {"title", "html_code", "focus_keyword", "seo_score"})
                 \ {{"title", "html_code", "focus_keyword", "seo_score"}}}

\* bodies that are not JSON objects: null, a number, two arrays, and a
\* body get_json cannot decode
OtherBodies ==
    {Body("null", {}, NoVal), Body("int", {}, NoVal), Body("list", {}, NoVal),
     Body("list", {"title", "html_code", "focus_keyword", "seo_score"}, NoVal),
     Body("invalid", {}, NoVal)}

Bodies == FullBodies \cup PartialBodies \cup OtherBodies

NoRequest == Body("none", {}, NoVal)

NoResponse == Response(0, FALSE, "", NoData, <<>>, {})

NoImage == [alt_text |-> "", image_title |-> "", image_caption |-> "",
            image_description |-> ""]

Idle ==
    [pc |-> "idle", optimized |-> "", optimized_title |-> "",
     optimized_meta |-> "", optimized_content |-> "", suggested_tags |-> <<>>,
     image_fields |-> NoImage, optimized_html |-> "", new_score |-> 0,
     invoked |-> <<>>, fallbacks |-> {}]

NoCall == [fn |-> "optimize_content", title |-> JNull, html_code |-> JNull,
           focus_keyword |-> JNull, blocks |-> <<>>]

Init ==
    /\ request = NoRequest
    /\ response = NoResponse
    /\ previous = NoResponse
    /\ local = Idle
    /\ call = NoCall

\* a client sends POST /api/optimize with the body b
Post(b) ==
    /\ local.pc = "idle"
    /\ request' = b
    /\ response' = NoResponse
    /\ previous' = NoResponse
    /\ local' = [Idle EXCEPT !.pc = "validate"]
    /\ UNCHANGED call

\* the view returns: the except block of line 376 for an exception, or a
\* return statement
Return(r) ==
    /\ response' = r
    /\ local' = Idle
    /\ UNCHANGED <<request, previous, call>>

Goto(l) == UNCHANGED <<request, response, previous, call>> /\ local' = l

\* lines 277-292
Validate ==
    /\ local.pc = "validate"
    /\ IF request.kind = "invalid"
       THEN Return(Failure(500,
                "400 Bad Request: Failed to decode JSON object", <<>>, {}))
       ELSE IF request.kind \in {"null", "int"}
       THEN Return(Failure(500, "argument of type '"
                \o TypeName([t |-> request.kind]) \o "' is not iterable",
                <<>>, {}))
       ELSE IF Missing(request) # ""
       THEN Return(Failure(400, "Missing required field: "
                                  \o Missing(request), <<>>, {}))
       ELSE IF request.kind = "list"
       THEN Return(Failure(500,
                "list indices must be integers or slices, not str", <<>>, {}))
       ELSE Goto([local EXCEPT !.pc = "title"])

\* the record of a call of helper name, whose except block ran if raised
Called(l, name, raised) ==
    [l EXCEPT !.invoked = Append(@, name),
              !.fallbacks = IF raised THEN @ \cup {name} ELSE @]

\* line 295
CallOptimizeTitle ==
    /\ local.pc = "title"
    /\ Goto([Called(local, "optimize_title",
                    optimize_title_raises(request.val.title,
                                          request.val.focus_keyword))
             EXCEPT !.pc = "meta",
                    !.optimized_title =
                        optimize_title(request.val.title,
                                       request.val.focus_keyword)])

\* line 296
CallGenerateMetaDescription ==
    /\ local.pc = "meta"
    /\ Goto([Called(local, "generate_meta_description",
                    generate_meta_description_raises(request.val.html_code,
                                                request.val.focus_keyword))
             EXCEPT !.pc = "content",
                    !.optimized_meta =
                        generate_meta_description(request.val.html_code,
                                                  request.val.focus_keyword)])

\* line 297
CallOptimizeHtmlContent ==
    /\ local.pc = "content"
    /\ Goto([Called(local, "optimize_html_content",
                    optimize_html_content_raises(request.val.html_code,
                                                 request.val.focus_keyword))
             EXCEPT !.pc = "tags",
                    !.optimized_content =
                        optimize_html_content(request.val.html_code,
                                              request.val.focus_keyword,
                                              local.optimized_title)])

\* line 298; count is the value of random.randint(5, 10)
CallGenerateTags(count) ==
    /\ local.pc = "tags"
    /\ Goto([Called(local, "generate_tags", FALSE)
             EXCEPT !.pc = "image",
                    !.suggested_tags =
                        generate_tags(request.val.focus_keyword, count)])

\* line 299: an exception raised in the except block of the helper leaves
\* the helper and ends the view
CallGenerateImageFields ==
    /\ local.pc = "image"
    /\ IF /\ generate_image_fields_raises(request.val.focus_keyword)
          /\ generate_image_fields_except_raises(request.val.focus_keyword)
       THEN Return(Failure(500,
                "'" \o TypeName(request.val.focus_keyword)
                    \o "' object has no attribute 'lower'",
                Append(local.invoked, "generate_image_fields"),
                local.fallbacks))
       ELSE Goto([Called(local, "generate_image_fields",
                         generate_image_fields_raises(
                             request.val.focus_keyword))
                  EXCEPT !.pc = "document",
                         !.image_fields =
                             generate_image_fields(request.val.focus_keyword)])

\* lines 301-338
BuildDocument ==
    /\ local.pc = "document"
    /\ IF JoinRaises(local.suggested_tags)
       THEN Return(Failure(500, "sequence item 0: expected str instance, "
                \o TypeName(request.val.focus_keyword) \o " found",
                local.invoked, local.fallbacks))
       ELSE Goto([local EXCEPT
                    !.pc = "score",
                    !.optimized_html =
                        Document(local.optimized_title, local.optimized_meta,
                                 Join(local.suggested_tags),
                                 request.val.focus_keyword.py,
                                 local.optimized_content)])

\* line 341
CallCalculateSeoScore ==
    /\ local.pc = "score"
    /\ IF /\ calculate_seo_score_raises(local.optimized_html,
                 request.val.focus_keyword, request.val.seo_score)
          /\ calculate_seo_score_except_raises(request.val.seo_score)
       THEN Return(Failure(500,
                IF request.val.seo_score.t = "str"
                THEN "can only concatenate str (not \"int\") to str"
                ELSE "unsupported operand type(s) for +: '"
                     \o TypeName(request.val.seo_score) \o "' and 'int'",
                Append(local.invoked, "calculate_seo_score"),
                local.fallbacks))
       ELSE Goto([Called(local, "calculate_seo_score",
                         calculate_seo_score_raises(local.optimized_html,
                             request.val.focus_keyword, request.val.seo_score))
                  EXCEPT !.pc = "respond",
                         !.new_score =
                             calculate_seo_score(local.optimized_html,
                                 request.val.focus_keyword,
                                 request.val.seo_score)])

\* lines 342-374; density is the value of
\* round(random.uniform(1.2, 2.1), 1), in tenths
Respond(density) ==
    /\ local.pc = "respond"
    /\ Return(Response(200, TRUE, "",
         [optimized_title   |-> local.optimized_title,
          optimized_html    |-> local.optimized_html,
          suggested_tags    |-> Join(local.suggested_tags),
          alt_text          |-> local.image_fields.alt_text,
          image_title       |-> local.image_fields.image_title,
          image_caption     |-> local.image_fields.image_caption,
          image_description |-> local.image_fields.image_description,
          seo_score_before  |-> request.val.seo_score.n,
          seo_score_after   |-> local.new_score,
          improvement       |-> local.new_score - request.val.seo_score.n,
          word_count        |-> WordCount(StripTags(local.optimized_content)),
          keyword_density   |-> density,
          title_length      |-> Len(local.optimized_title),
          meta_length       |-> Len(local.optimized_meta),
          optimizations     |-> optimizations],
         local.invoked, local.fallbacks))

\* optimize_content, lines 275-380, from one statement to the next
OptimizeContent ==
    \/ Validate
    \/ CallOptimizeTitle
    \/ CallGenerateMetaDescription
    \/ CallOptimizeHtmlContent
    \/ \E count \in TagDraws : CallGenerateTags(count)
    \/ CallGenerateImageFields
    \/ BuildDocument
    \/ CallCalculateSeoScore
    \/ \E density \in DensityDraws : Respond(density)

Next ==
    \/ \E b \in Bodies : Post(b)
    \/ OptimizeContent

Spec == Init /\ [][Next]_vars

(***************************************************************************)
(* A client that sends the same request twice and keeps the first answer   *)
(***************************************************************************)
RepeatBodies ==
    {Object(JStr("Guide"), JStr("<p>Hello world</p>"), JStr("Test"), JInt(0)),
     Object(JStr("Guide"), JStr("<p>Hello world</p>"), JInt(123), JInt(50)),
     Body("object", {"title"}, NoVal),
     Body("null", {}, NoVal)}

\* the client keeps the answer and sends the same body again
Repeat ==
    /\ local.pc = "idle"
    /\ response.status # 0
    /\ previous.status = 0
    /\ previous' = response
    /\ response' = NoResponse
    /\ local' = [Idle EXCEPT !.pc = "validate"]
    /\ UNCHANGED <<request, call>>

NextRepeat ==
    \/ \E b \in RepeatBodies : Post(b)
    \/ OptimizeContent
    \/ Repeat

SpecRepeat == Init /\ [][NextRepeat]_vars

(***************************************************************************)
(* The helpers called on their own: call holds the arguments, local the    *)
(* helper's local variables and its position                               *)
(***************************************************************************)
Call(fn, title, html_code, focus_keyword, blocks) ==
    [fn |-> fn, title |-> title, html_code |-> html_code,
     focus_keyword |-> focus_keyword, blocks |-> blocks]

InitCall(calls) ==
    /\ request = NoRequest
    /\ response = NoResponse
    /\ previous = NoResponse
    /\ call \in calls
    /\ local = [Idle EXCEPT !.pc = "called"]

Step(l) == local' = l /\ UNCHANGED <<request, response, previous, call>>

MaxTitleLen == 64

\* titles of every length up to MaxTitleLen, without the keyword and with
\* it (in another case), and arguments that are not strings
TitleCalls ==
    {Call("optimize_title", JStr(Rep("x", n)), JNull, JStr("Test"), <<>>) :
        n \in 0..MaxTitleLen}
    \cup {Call("optimize_title", JStr("test " \o Rep("x", n)), JNull,
               JStr("Test"), <<>>) : n \in 0..MaxTitleLen}
    \cup {Call("optimize_title", JStr("Guide"), JNull, JStr("Visa"), <<>>),
          Call("optimize_title", JNull, JNull, JStr(Rep("k", MaxTitleLen)),
               <<>>),
          Call("optimize_title", JStr("Guide"), JNull, JInt(123), <<>>)}

\* optimize_title, lines 16-31
OptimizeTitle ==
    /\ local.pc = "called"
    /\ call.fn = "optimize_title"
    /\ Step([local EXCEPT
               !.pc = "returned",
               !.optimized_title =
                   optimize_title(call.title, call.focus_keyword)])

SpecTitle == InitCall(TitleCalls) /\ [][OptimizeTitle]_vars

MaxSentenceLen == 100

\* contents whose first sentence has every length up to MaxSentenceLen,
\* and a content that is not a string
MetaCalls ==
    {Call("generate_meta_description", JNull,
          JStr("<p>" \o Rep("a", n) \o ". more</p>"), JStr("Test"), <<>>) :
        n \in 0..MaxSentenceLen}
    \cup {Call("generate_meta_description", JNull,
               JStr("<p>Hello world</p>"), JStr("Test"), <<>>),
          Call("generate_meta_description", JNull, JNull, JStr("Test"),
               <<>>)}

\* generate_meta_description, lines 33-54
GenerateMetaDescription ==
    /\ local.pc = "called"
    /\ call.fn = "generate_meta_description"
    /\ Step([local EXCEPT
               !.pc = "returned",
               !.optimized_meta =
                   generate_meta_description(call.html_code,
                                             call.focus_keyword)])

SpecMeta == InitCall(MetaCalls) /\ [][GenerateMetaDescription]_vars

(***************************************************************************)
(* optimize_html_content on documents made of blocks: a paragraph is a     *)
(* block with an opening tag, a text and a closing tag, anything else is   *)
(* a block with a text only.  call.blocks keeps the blocks of which        *)
(* call.html_code is the concatenation.                                    *)
(***************************************************************************)
Paragraph(open, text, close) == [open |-> open, text |-> text, close |-> close]

Other(text) == [open |-> "", text |-> text, close |-> ""]

IsParagraph(b) == b.open # ""

MaxBlocks == 3

Vocabulary ==
    {Paragraph("<p>", "Hello world", "</p>"),
     Paragraph("<p class=\"a\">", "Bye now", "</p>"),
     Paragraph("<P>", "Test a", "</P>"),
     Paragraph("<p>", "a\nb", "</p>"),
     Other("<h2>Intro</h2>"),
     Other("<h2>About test</h2>")}

RECURSIVE Render(_)
Render(blocks) ==
    IF Len(blocks) = 0 THEN ""
    ELSE blocks[1].open \o blocks[1].text \o blocks[1].close
         \o Render(Tail(blocks))

Documents ==
    UNION {[1..n -> Vocabulary] : n \in 0..MaxBlocks}

\* the third keyword holds a closing tag in upper case, which the slug of
\* the internal links (lines 149-150) turns into "</p>"
HtmlKeywords == {"Test", "Golden Visa", "</P>"}

HtmlCalls ==
    {Call("optimize_html_content", JNull, JStr(Render(d)), JStr(kw), d) :
        d \in Documents, kw \in HtmlKeywords}
    \cup {Call("optimize_html_content", JNull, JNull, JStr("Test"), <<>>),
          Call("optimize_html_content", JNull, JStr("<p>Hello world</p>"),
               JInt(123), <<>>)}

HtmlStep(at) == local.pc = at /\ call.fn = "optimize_html_content"

\* the statement at position next runs on the value v of optimized
Assign(v, next) == Step([local EXCEPT !.pc = next, !.optimized = v])

\* lines 106-115, and lines 189-191 when line 110 raises
StepInjectKeyword ==
    /\ HtmlStep("called")
    /\ IF optimize_html_content_raises(call.html_code, call.focus_keyword)
       THEN Assign(optimize_html_content(call.html_code, call.focus_keyword,
                                         ""), "returned")
       ELSE Assign(InjectKeyword(call.html_code.py, call.focus_keyword.py),
                   "h2")

\* lines 117-124
StepInsertH2 ==
    /\ HtmlStep("h2")
    /\ Assign(InsertH2(local.optimized, call.focus_keyword.py), "h3")

\* lines 126-128
StepInsertH3 ==
    /\ HtmlStep("h3")
    /\ Assign(InsertH3(local.optimized, call.focus_keyword.py), "toc")

\* lines 130-145
StepInsertTOC ==
    /\ HtmlStep("toc")
    /\ Assign(InsertTOC(local.optimized, call.focus_keyword.py), "link1")

\* lines 153-154, i = 0
StepInternalLink1 ==
    /\ HtmlStep("link1")
    /\ Assign(InsertLink(local.optimized,
                         internal_links(call.focus_keyword.py)[1]), "link2")

\* lines 153-154, i = 1
StepInternalLink2 ==
    /\ HtmlStep("link2")
    /\ Assign(InsertLink(local.optimized,
                         internal_links(call.focus_keyword.py)[2]), "external")

\* lines 157-158
StepExternalLink ==
    /\ HtmlStep("external")
    /\ Assign(InsertLink(local.optimized,
                         external_link(call.focus_keyword.py)), "transitions")

\* lines 160-171
StepAddTransitions ==
    /\ HtmlStep("transitions")
    /\ Assign(AddTransitions(local.optimized), "pad")

\* lines 173-188
StepEnsureLength ==
    /\ HtmlStep("pad")
    /\ Assign(EnsureLength(local.optimized, call.focus_keyword.py),
              "returned")

\* optimize_html_content, lines 104-191, from one statement to the next
OptimizeHtmlContent ==
    \/ StepInjectKeyword
    \/ StepInsertH2
    \/ StepInsertH3
    \/ StepInsertTOC
    \/ StepInternalLink1
    \/ StepInternalLink2
    \/ StepExternalLink
    \/ StepAddTransitions
    \/ StepEnsureLength

SpecHtml == InitCall(HtmlCalls) /\ [][OptimizeHtmlContent]_vars

\* the statements taken one at a time return what the helper returns
StepsAgree ==
    (local.pc = "returned" /\ call.fn = "optimize_html_content")
    => local.optimized = optimize_html_content(call.html_code,
                                               call.focus_keyword, "")

(***************************************************************************)
(* Properties of the view                                                  *)
(***************************************************************************)
HasFourFields(data) == data.kind = "object" /\ Missing(data) = ""

Answered == response.status # 0

ScoreInRange(data) ==
    IsInt(data.val.seo_score) /\ data.val.seo_score.n \in 0..100

\* C1: a request with the four fields and an integer seo_score in 0..100
\* that is answered with success has seo_score_before <= seo_score_after
\* <= 100 and improvement = seo_score_after - seo_score_before >= 0.
C1_ScoreNeverDropsNorExceeds100 ==
    (response.success /\ HasFourFields(request) /\ ScoreInRange(request))
    => /\ response.data.seo_score_before = request.val.seo_score.n
       /\ response.data.seo_score_after >= response.data.seo_score_before
       /\ response.data.seo_score_after <= 100
       /\ response.data.improvement =
            response.data.seo_score_after - response.data.seo_score_before
       /\ response.data.improvement >= 0

\* a score of 50 whose points would carry it past 100
C1_Witness ==
    /\ response.success
    /\ request.val.seo_score = JInt(50)
    /\ request.val.html_code = JStr("<p>Hello world</p>")
    /\ response.data.seo_score_after = 100
    /\ response.data.improvement = 50

\* C3: a request whose body lacks one of the four fields, or is not a JSON
\* object at all, is answered with 400, success false and an error naming
\* a missing field, and no helper is invoked.
C3_MissingFieldIsAnswered400 ==
    (Answered /\ ~HasFourFields(request))
    => /\ response.status = 400
       /\ ~response.success
       /\ \E i \in 1..Len(required_fields) :
             /\ (request.kind # "object"
                   \/ required_fields[i] \notin request.has)
             /\ response.error
                  = "Missing required field: " \o required_fields[i]
       /\ response.invoked = <<>>

\* C5: every successful answer to a request with an integer seo_score in
\* 0..100 reports a seo_score_after of at least 90, as the optimizations
\* list of the answer says ("Rank Math 90+ score achieved").
C5_ScoreAtLeast90 ==
    (response.success /\ HasFourFields(request) /\ ScoreInRange(request))
    => /\ \E i \in 1..Len(response.data.optimizations) :
             response.data.optimizations[i] = "Rank Math 90+ score achieved"
       /\ response.data.seo_score_after >= 90

\* C6: once the four fields are present a helper that fails returns its
\* fallback value and the others run as usual, so the request is answered
\* with success and never with 500.
C6_HelperFailureNeverAborts ==
    (Answered /\ HasFourFields(request))
    => /\ response.status = 200
       /\ response.success

SameExcept(a, b, free) ==
    /\ a.status = b.status
    /\ a.success = b.success
    /\ a.error = b.error
    /\ a.success =>
         \A f \in (DOMAIN a.data) \ free : a.data[f] = b.data[f]

\* C10 as stated: two answers to the same request agree in every field
\* but suggested_tags and keyword_density.
C10_OnlyTagsAndDensityVary ==
    (Answered /\ previous.status # 0)
    => SameExcept(previous, response, {"suggested_tags", "keyword_density"})

\* C10 amended: two answers to the same request agree in every field but
\* suggested_tags, keyword_density and optimized_html (the document
\* carries the drawn tags in its keywords meta tag); seo_score_after and
\* improvement are among the fields that agree.
C10_OnlyTagsDensityAndHtmlVary ==
    (Answered /\ previous.status # 0)
    => SameExcept(previous, response,
                  {"suggested_tags", "keyword_density", "optimized_html"})

\* two successful answers that differ in all three fields
C10_Witness ==
    /\ previous.success
    /\ response.success
    /\ previous.data.suggested_tags # response.data.suggested_tags
    /\ previous.data.keyword_density # response.data.keyword_density
    /\ previous.data.optimized_html # response.data.optimized_html
    /\ previous.data.seo_score_after = response.data.seo_score_after

(***************************************************************************)
(* Properties of the helpers                                               *)
(***************************************************************************)
Returned(fn) == local.pc = "returned" /\ call.fn = fn

\* C2: for a content that is a string, the meta description is at most
\* 160 characters long, and at least 150 unless the unpadded text was
\* longer than 160.
C2_MetaLengthWithin150And160 ==
    (Returned("generate_meta_description") /\ IsStr(call.html_code))
    => /\ Len(local.optimized_meta) <= 160
       /\ \/ Len(local.optimized_meta) >= 150
          \/ Len(UnpaddedMeta(call.html_code, call.focus_keyword)) > 160

\* the candidate title of C4
Candidate(title, keyword) ==
    IF Contains(Lower(title), Lower(keyword)) THEN title
    ELSE keyword \o " - " \o title

\* C4: optimize_title returns at most 60 characters; for a title and a
\* keyword that are strings it returns the candidate (the title when it
\* holds the keyword in any case, "{keyword} - {title}" otherwise) when
\* that has 60 characters or fewer, and its first 57 characters followed
\* by "..." when it is longer.
C4_TitleIsCandidateCutTo60 ==
    Returned("optimize_title")
    => /\ Len(local.optimized_title) <= 60
       /\ (IsStr(call.title) /\ IsStr(call.focus_keyword))
          => LET c == Candidate(call.title.py, call.focus_keyword.py)
             IN  local.optimized_title =
                    IF Len(c) > 60 THEN SubSeq(c, 1, 57) \o "..." ELSE c

\* a candidate of 61 characters, returned as 57 characters and "..."
C4_Witness ==
    /\ Returned("optimize_title")
    /\ call.title = JStr(Rep("x", 54))
    /\ call.focus_keyword = JStr("Test")
    /\ local.optimized_title = "Test - " \o Rep("x", 50) \o "..."

\* the call is one of optimize_html_content on a string and a keyword
\* that is a string, and has reached the position at
HtmlAt(at) ==
    /\ local.pc = at
    /\ call.fn = "optimize_html_content"
    /\ IsStr(call.html_code)
    /\ IsStr(call.focus_keyword)

HasParagraph(blocks) == \E i \in 1..Len(blocks) : IsParagraph(blocks[i])

\* the index of the first paragraph among the blocks
FirstParagraph(blocks) ==
    MinOf({i \in 1..Len(blocks) : IsParagraph(blocks[i])})

KeywordAbsent ==
    ~Contains(Lower(call.html_code.py), Lower(call.focus_keyword.py))

\* the first paragraph's text with the keyword put before it
Injected ==
    call.focus_keyword.py \o " konusunda "
    \o call.blocks[FirstParagraph(call.blocks)].text

\* C7: when the html has a paragraph and does not hold the keyword in any
\* case, the keyword-injection step changes the first paragraph only (the
\* blocks before and after it are what they were, and what stands between
\* holds the first paragraph's text behind "{keyword} konusunda "), and
\* the returned body holds that text and "<h2>{keyword} Nedir?</h2>".
C7_KeywordGoesIntoFirstParagraphOnly ==
    LET f      == FirstParagraph(call.blocks)
        before == Render(SubSeq(call.blocks, 1, f - 1))
        after  == Render(SubSeq(call.blocks, f + 1, Len(call.blocks)))
        middle == SubSeq(local.optimized, Len(before) + 1,
                         Len(local.optimized) - Len(after))
    IN  /\ (HtmlAt("h2") /\ HasParagraph(call.blocks) /\ KeywordAbsent)
           => /\ local.optimized = before \o middle \o after
              /\ Contains(middle, Injected)
        /\ (HtmlAt("returned") /\ HasParagraph(call.blocks) /\ KeywordAbsent)
           => /\ Contains(local.optimized, Injected)
              /\ Contains(local.optimized, h2_heading(call.focus_keyword.py))

\* the value of optimized before and after lines 117-124
BeforeH2 == InjectKeyword(call.html_code.py, call.focus_keyword.py)

AfterH2 == InsertH2(BeforeH2, call.focus_keyword.py)

H2Inserted == AfterH2 # BeforeH2

\* where the inserted heading starts in AfterH2: behind the first "</p>"
\* and the line feed that follows it
InsertedH2At == Find(BeforeH2, "</p>", 1) + 5

\* the inserted heading and, on the next line, the sub-heading
H2ThenH3 ==
    h2_heading(call.focus_keyword.py) \o "\n"
    \o h3_heading(call.focus_keyword.py) \o "\n"

\* C8 as stated: whenever the "<h2>{keyword} Nedir?</h2>" heading was
\* inserted, the sub-heading stands right behind that heading once lines
\* 126-128 have run.
C8_H3FollowsInsertedH2 ==
    (HtmlAt("toc") /\ H2Inserted)
    => StartsAt(local.optimized, InsertedH2At, H2ThenH3)

\* C8 amended: the sub-heading is inserted right behind the first "</h2>"
\* of the string; that is the closing tag of the inserted heading, and
\* the sub-heading stands right behind that heading, whenever the heading
\* was inserted and no "</h2>" stands before the first "</p>".
C8_H3FollowsFirstH2 ==
    LET e == Find(AfterH2, "</h2>", 1)
        p == Find(BeforeH2, "</p>", 1)
    IN  HtmlAt("toc")
        => /\ e # 0 =>
                local.optimized =
                    SubSeq(AfterH2, 1, e + 4) \o "\n"
                    \o h3_heading(call.focus_keyword.py) \o "\n"
                    \o SubSeq(AfterH2, e + 5, Len(AfterH2))
           /\ e = 0 => local.optimized = AfterH2
           /\ (H2Inserted /\ ~Contains(SubSeq(BeforeH2, 1, p), "</h2>"))
              => StartsAt(local.optimized, InsertedH2At, H2ThenH3)

\* an h2 stands before the first paragraph: the heading is inserted behind
\* the paragraph and the sub-heading behind the earlier h2
C8_Witness ==
    /\ HtmlAt("toc")
    /\ call.html_code = JStr("<h2>Intro</h2><p>Hello world</p>")
    /\ call.focus_keyword = JStr("Test")
    /\ H2Inserted
    /\ local.optimized =
          "<h2>Intro</h2>\n<h3>Test Avantajlari</h3>\n"
          \o "<p>Test konusunda Hello world</p>\n<h2>Test Nedir?</h2>\n"

\* the value of optimized before lines 141-145
BeforeTOC ==
    InsertH3(AfterH2, call.focus_keyword.py)

\* the three links as they stand in front of a closing tag
ThreeLinks ==
    " " \o internal_links(call.focus_keyword.py)[1]
    \o " " \o internal_links(call.focus_keyword.py)[2]
    \o " " \o external_link(call.focus_keyword.py)

\* the first paragraph's text, the three links, its closing tag and the
\* table of contents on the next line
LinkedFirstParagraph ==
    LET b == call.blocks[FirstParagraph(call.blocks)]
    IN  b.text \o ThreeLinks \o b.close \o "\n"
        \o toc(call.focus_keyword.py) \o "\n"

LinkCount(s) ==
    CountFrom(s, "daha fazla bilgi</a>", 1)
    + CountFrom(s, "detayli rehber</a>", 1)
    + CountFrom(s, "Google'da ara</a>", 1)

\* C9 as stated: when the html has a paragraph, after the three
\* insertions the first paragraph ends with internal link 1, internal
\* link 2 and the external link, in that order, in front of its closing
\* tag, the table of contents follows it, and there are no other links.
C9_LinksInFirstParagraph ==
    (HtmlAt("transitions") /\ HasParagraph(call.blocks))
    => /\ Contains(Lower(local.optimized), Lower(LinkedFirstParagraph))
       /\ LinkCount(local.optimized) = 3

\* the keyword holds no "</p>" in either case, so that neither the
\* keyword nor its lower-cased slug brings a "</p>" into a link
KeywordWithoutClose ==
    ~Contains(Lower(call.focus_keyword.py), "</p>")

\* C9 amended: each insertion replaces the first lower-case "</p>" of the
\* string, so for a keyword that holds no "</p>" in either case the three
\* links stand, in the order internal link 1, internal link 2, external
\* link, in front of the "</p>" that was the first one when the table of
\* contents was inserted, the table of contents stays right behind that
\* "</p>", and nothing else changes; that "</p>" closes the first
\* paragraph, and C9 as stated holds, whenever the first paragraph is
\* closed by a lower-case "</p>".
C9_LinksBeforeFirstLowerCaseClose ==
    LET p == Find(BeforeTOC, "</p>", 1)
    IN  (HtmlAt("transitions") /\ KeywordWithoutClose)
        => /\ p # 0 =>
                local.optimized =
                    SubSeq(BeforeTOC, 1, p - 1) \o ThreeLinks \o "</p>\n"
                    \o toc(call.focus_keyword.py) \o "\n"
                    \o SubSeq(BeforeTOC, p + 4, Len(BeforeTOC))
           /\ p = 0 => local.optimized = BeforeTOC
           /\ ( /\ HasParagraph(call.blocks)
                /\ call.blocks[FirstParagraph(call.blocks)].close = "</p>" )
              => /\ Contains(Lower(local.optimized),
                             Lower(LinkedFirstParagraph))
                 /\ LinkCount(local.optimized) = 3

\* the first paragraph is closed by "</P>": the links and the table of
\* contents go to the second paragraph
C9_Witness ==
    /\ HtmlAt("transitions")
    /\ call.html_code = JStr("<P>Test a</P><p>Hello world</p>")
    /\ call.focus_keyword = JStr("Test")
    /\ Contains(local.optimized,
                "<P>Test a</P><p>Hello world" \o ThreeLinks \o "</p>\n"
                \o toc("Test") \o "\n")

====
